---- MODULE Spec2Model ----
(***************************************************************************)
(* State-machine model of src/ws/ws_manager.rs: the WebSocket subscription *)
(* manager (WsManager) with its reader task, its ping task and the         *)
(* caller-invoked add_subscription / remove_subscription.                  *)
(***************************************************************************)
EXTENDS Integers, Sequences, FiniteSets, TLC

(***************************************************************************)
(* Bounds of the model.                                                    *)
(***************************************************************************)
\* number of add_subscription / remove_subscription calls explored
MaxCalls == 4
\* number of calls explored where the reader task runs beside them
MaxRoutedCalls == 2
\* number of frames the reader task pulls from the read half
MaxFrames == 2
\* number of add_subscription calls explored beside every kind of frame
MaxInboundCalls == 2
\* number of frames the reader task pulls where every kind of frame is explored
MaxInboundFrames == 1
\* number of add_subscription calls explored where every descriptor is used
MaxTopicCalls == 1
\* number of ping sends explored before the stop flag is set
MaxPings == 1
\* number of calls explored beside both tasks
MaxLoopCalls == 3
\* number of frames the reader task pulls beside the ping task
MaxLoopFrames == 1
\* number of receivers the callers drop
MaxDrops == 1

(***************************************************************************)
(* Subscription descriptors and their JSON form.                           *)
(***************************************************************************)
Coins == {"BTC"}
Intervals == {"1m"}
\* H160 serialises as 0x followed by 40 lower-case hex digits
Users == {"0x0000000000000000000000000000000000000001",
          "0x0000000000000000000000000000000000000002"}

\* enum Subscription
Subscription ==
    {[type |-> "allMids"]}
    \cup {[type |-> "trades", coin |-> c] : c \in Coins}
    \cup {[type |-> "l2Book", coin |-> c] : c \in Coins}
    \cup {[type |-> "userEvents", user |-> u] : u \in Users}
    \cup {[type |-> "userFills", user |-> u] : u \in Users}
    \cup {[type |-> "candle", coin |-> c, interval |-> i] : c \in Coins, i \in Intervals}
    \cup {[type |-> "orderUpdates", user |-> u] : u \in Users}
    \cup {[type |-> "userFundings", user |-> u] : u \in Users}
    \cup {[type |-> "userNonFundingLedgerUpdates", user |-> u] : u \in Users}
    \cup {[type |-> "notification", user |-> u] : u \in Users}

\* serde_json::to_string(&Subscription): internally tagged by "type",
\* variant names in camelCase, fields in declaration order
ToJson(d) ==
    CASE d.type = "allMids" -> "{\"type\":\"allMids\"}"
      [] d.type \in {"trades", "l2Book"} ->
            "{\"type\":\"" \o d.type \o "\",\"coin\":\"" \o d.coin \o "\"}"
      [] d.type = "candle" ->
            "{\"type\":\"candle\",\"coin\":\"" \o d.coin
               \o "\",\"interval\":\"" \o d.interval \o "\"}"
      [] OTHER ->
            "{\"type\":\"" \o d.type \o "\",\"user\":\"" \o d.user \o "\"}"

\* the value a failed serde_json::from_str::<Subscription> stands for
JsonParseError == [type |-> "<JsonParse>"]

\* serde_json::from_str::<Subscription>(&identifier)
FromJson(s) ==
    IF \E d \in Subscription : ToJson(d) = s
    THEN CHOOSE d \in Subscription : ToJson(d) = s
    ELSE JsonParseError

\* the identifier_entry computed by add_subscription and remove_subscription
IdentifierEntry(identifier) ==
    IF FromJson(identifier).type = "userEvents" THEN "userEvents"
    ELSE IF FromJson(identifier).type = "orderUpdates" THEN "orderUpdates"
    ELSE identifier

(***************************************************************************)
(* Inbound events.                                                         *)
(***************************************************************************)
\* wire tag ("channel") of each variant of enum Message (camelCase)
ChannelOf ==
    [AllMids |-> "allMids", Trades |-> "trades", L2Book |-> "l2Book",
     User |-> "user", UserFills |-> "userFills", Candle |-> "candle",
     SubscriptionResponse |-> "subscriptionResponse",
     OrderUpdates |-> "orderUpdates", UserFundings |-> "userFundings",
     UserNonFundingLedgerUpdates |-> "userNonFundingLedgerUpdates",
     Notification |-> "notification", Pong |-> "pong", NoData |-> "noData"]

\* Message::NoData
NoData == [variant |-> "NoData"]

\* Message::HyperliquidError(text)
HyperliquidError(text) == [variant |-> "HyperliquidError", data |-> text]

\* Error::GenericReader(err).to_string(): the error text wraps the transport error
GenericReader(err) == "Generic reader error: " \o err

\* Error::ReaderTextConversion(err).to_string()
ReaderTextConversion(err) == "Reader text conversion error: " \o err

\* the JSON object of the Message variant that reports on descriptor d: the
\* wire tag of the variant and a payload with the coin, interval or user
\* the variant carries
EventOf(d) ==
    CASE d.type = "allMids" -> [channel |-> "allMids", data |-> [mids |-> "m1"]]
      [] d.type = "trades" ->
            [channel |-> "trades", data |-> [batch |-> <<[coin |-> d.coin]>>]]
      [] d.type = "l2Book" -> [channel |-> "l2Book", data |-> [coin |-> d.coin]]
      [] d.type = "userEvents" -> [channel |-> "user", data |-> [fills |-> "f1"]]
      [] d.type = "candle" ->
            [channel |-> "candle",
             data |-> [coin |-> d.coin, interval |-> d.interval]]
      [] d.type = "orderUpdates" ->
            [channel |-> "orderUpdates", data |-> [order |-> "o1"]]
      [] d.type = "notification" ->
            [channel |-> "notification", data |-> [notification |-> "n1"]]
      [] d.type \in {"userFills", "userFundings", "userNonFundingLedgerUpdates"} ->
            [channel |-> d.type, data |-> [user |-> d.user]]

\* the JSON objects the server sends in the model: a wire tag and a payload
InboundJson ==
    {EventOf(d) : d \in Subscription}
    \cup {[channel |-> "trades", data |-> [batch |-> <<>>]],
          [channel |-> "subscriptionResponse", data |-> [none |-> ""]],
          [channel |-> "pong", data |-> [none |-> ""]],
          [channel |-> "noData", data |-> [none |-> ""]],
          [channel |-> "unknownChannel", data |-> [none |-> ""]]}

\* what reader.next().await can yield: None, Some(Err(e)), or Some(Ok(frame))
\* with a text frame (JSON object or other text) or a frame into_text rejects
Frames ==
    {[kind |-> "closed"], [kind |-> "error", err |-> "io"],
     [kind |-> "binary", err |-> "utf8"],
     [kind |-> "text", brace |-> FALSE]}
    \cup {[kind |-> "text", brace |-> TRUE, json |-> j] : j \in InboundJson}

\* the frames used where the reader task runs beside the calls
RoutedFrames ==
    {f \in Frames :
        \/ f.kind \in {"closed", "error"}
        \/ f.kind = "text" /\ ~f.brace
        \/ f.kind = "text" /\ f.brace /\ f.json.channel = "allMids"}

\* the frames used where every path of parse_and_send_data is explored: the
\* failures, text that is dropped, the events with an empty identifier and
\* one routed event
InboundFrames ==
    {f \in Frames :
        \/ f.kind \in {"error", "binary"}
        \/ f.kind = "text" /\ ~f.brace
        \/ f.kind = "text" /\ f.brace
              /\ f.json.channel \in {"trades", "subscriptionResponse", "pong",
                                      "noData", "unknownChannel"}}

\* one text frame for the event of each descriptor
EventFrames ==
    {[kind |-> "text", brace |-> TRUE, json |-> EventOf(d)] : d \in Subscription}

\* the frames used where both tasks run beside the calls: a broadcast and
\* a routed event
LoopFrames ==
    {f \in Frames :
        \/ f.kind = "error"
        \/ f.kind = "text" /\ f.brace /\ f.json.channel = "allMids"}

\* the frame used where the waits for the two mutexes are explored: one
\* that makes the reader take the subscriptions mutex
LockFrames == {f \in Frames : f.kind = "error"}

\* the value a failed serde_json::from_str::<Message> stands for
MessageParseError == [variant |-> "<JsonParse>"]

\* serde_json::from_str::<Message>(&data): the variant whose tag is the
\* channel, carrying the payload; an unknown tag fails
ParseMessage(j) ==
    IF \E v \in DOMAIN ChannelOf : ChannelOf[v] = j.channel
    THEN [variant |-> CHOOSE v \in DOMAIN ChannelOf : ChannelOf[v] = j.channel,
          data |-> j.data]
    ELSE MessageParseError

\* WsManager::get_identifier
get_identifier(message) ==
    CASE message.variant = "AllMids" -> ToJson([type |-> "allMids"])
      [] message.variant = "User" -> "userEvents"
      [] message.variant = "UserFills" -> "userFills"
      [] message.variant = "Trades" ->
            IF message.data.batch = <<>> THEN ""
            ELSE ToJson([type |-> "trades", coin |-> message.data.batch[1].coin])
      [] message.variant = "L2Book" ->
            ToJson([type |-> "l2Book", coin |-> message.data.coin])
      [] message.variant = "Candle" ->
            ToJson([type |-> "candle", coin |-> message.data.coin,
                    interval |-> message.data.interval])
      [] message.variant = "OrderUpdates" -> "orderUpdates"
      [] message.variant = "UserFundings" -> "userFundings"
      [] message.variant = "UserNonFundingLedgerUpdates" ->
            ToJson([type |-> "userNonFundingLedgerUpdates",
                    user |-> message.data.user])
      [] message.variant = "Notification" -> "notification"
      [] message.variant \in {"SubscriptionResponse", "Pong"} -> ""
      [] message.variant = "NoData" -> ""
      [] message.variant = "HyperliquidError" -> "hyperliquid error: " \o message.data

(***************************************************************************)
(* State.                                                                  *)
(***************************************************************************)
VARIABLES
    subscriptions,            \* WsManager.subscriptions: topic -> list of SubscriptionData
    subscription_id,          \* WsManager.subscription_id: the next id
    subscription_identifiers, \* WsManager.subscription_identifiers: id -> identifier
    stop_flag,                \* WsManager.stop_flag
    subsLock,                 \* TRUE while add/remove holds the subscriptions mutex
    writerLock,               \* holder of the writer mutex: "free", "facade", "ping"
    facade,                   \* the add/remove call in progress, or the last one
    readerPc,                 \* reader task: "top", "read", "parse", "done"
    readerData,               \* the value reader.next() yielded last
    ended,                    \* the read half has reported the end of the stream
    frames,                   \* number of values pulled from the read half
    pingPc,                   \* ping task: "top", "lock", "send", "sleep", "done"
    pings,                    \* number of ping frames handed to the writer
    queues,                   \* receiving end of each caller channel: channel -> events
    rxLive,                   \* channels whose receiver has not been dropped
    wire,                     \* subscribe/unsubscribe frames handed to the writer
    dispatched,               \* what the last parse_and_send_data did
    issued,                   \* ids returned by successful add_subscription, in order
    removed,                  \* entries whose remove_subscription returned Ok
    detached,                 \* ids whose entry a remove_subscription took out of its list
    pingResult                \* what the last send of a ping returned: "none", "ok", "err"

vars == <<subscriptions, subscription_id, subscription_identifiers, stop_flag,
          subsLock, writerLock, facade, readerPc, readerData, ended, frames,
          pingPc, pings, queues, rxLive, wire, dispatched, issued, removed,
          detached, pingResult>>

\* HashMap::new()
EmptyMap == [k \in {} |-> <<>>]

\* HashMap::insert
MapInsert(map, k, v) == [x \in DOMAIN map \cup {k} |-> IF x = k THEN v ELSE map[x]]

\* mutant: the key stays in the map
MapRemoveNothing(map, k) == map

\* HashMap::remove
MapRemove(map, k) == [x \in DOMAIN map \ {k} |-> map[x]]

\* struct SubscriptionData
SubscriptionData(sending_channel, id) ==
    [sending_channel |-> sending_channel, subscription_id |-> id]

\* the identifiers callers pass to add_subscription: serialised descriptors
\* (two users for the topics that coalesce) and one string that is no descriptor
Identifiers ==
    {ToJson(d) : d \in {[type |-> "allMids"]}
                       \cup {[type |-> t, user |-> u] :
                               t \in {"userEvents", "orderUpdates"}, u \in Users}}
    \cup {"not json"}

\* the identifiers used where the reader task runs beside the calls
RoutedIdentifiers ==
    {ToJson([type |-> "allMids"]),
     ToJson([type |-> "orderUpdates", user |-> CHOOSE u \in Users : TRUE])}

\* the identifiers used where every kind of frame is explored
InboundIdentifiers ==
    {ToJson([type |-> "allMids"])}
    \cup {ToJson([type |-> "trades", coin |-> c]) : c \in Coins}

\* every descriptor, serialised
AllIdentifiers == {ToJson(d) : d \in Subscription}

\* the identifier used where both tasks run beside the calls
LoopIdentifiers == {ToJson([type |-> "allMids"])}

\* what a call found when it was made
Before ==
    [subscriptions |-> subscriptions,
     subscription_identifiers |-> subscription_identifiers,
     subscription_id |-> subscription_id,
     wire |-> wire,
     detached |-> detached]

NoCall ==
    [pc |-> "idle", n |-> 0, op |-> "none", identifier |-> "", id |-> -1,
     chan |-> 0, entry |-> "", result |-> "none",
     before |-> [subscriptions |-> EmptyMap, subscription_identifiers |-> EmptyMap,
                 subscription_id |-> 0, wire |-> <<>>, detached |-> {}]]

NoDispatch ==
    [n |-> 0, data |-> [kind |-> "none"], attempts |-> <<>>, result |-> "none",
     subscriptions |-> EmptyMap, queues |-> EmptyMap, live |-> {}, removed |-> {}]

\* WsManager::new: the state the constructor leaves, both tasks spawned
Init ==
    /\ subscriptions = EmptyMap
    /\ subscription_id = 0
    /\ subscription_identifiers = EmptyMap
    /\ stop_flag = FALSE
    /\ subsLock = FALSE
    /\ writerLock = "free"
    /\ facade = NoCall
    /\ readerPc = "top"
    /\ readerData = [kind |-> "none"]
    /\ ended = FALSE
    /\ frames = 0
    /\ pingPc = "top"
    /\ pings = 0
    /\ queues = EmptyMap
    /\ rxLive = {}
    /\ wire = <<>>
    /\ dispatched = NoDispatch
    /\ issued = <<>>
    /\ removed = {}
    /\ detached = {}
    /\ pingResult = "none"

(***************************************************************************)
(* Fan-out.                                                                *)
(***************************************************************************)
\* mutant: the loop returns at the first failed send
SendEachUntilError(subscription_datas, message, live) ==
    LET n == IF \E k \in 1..Len(subscription_datas) :
                    subscription_datas[k].sending_channel \notin live
             THEN CHOOSE k \in 1..Len(subscription_datas) :
                     /\ subscription_datas[k].sending_channel \notin live
                     /\ \A j \in 1..(k - 1) :
                            subscription_datas[j].sending_channel \in live
             ELSE Len(subscription_datas)
    IN  [k \in 1..n |->
            [subscription_id |-> subscription_datas[k].subscription_id,
             sending_channel |-> subscription_datas[k].sending_channel,
             message |-> message,
             ok |-> subscription_datas[k].sending_channel \in live]]

\* the loop over one list: sending_channel.send(message.clone()) on every
\* entry; a send fails exactly when the receiver is gone
SendEach(subscription_datas, message, live) ==
    [k \in 1..Len(subscription_datas) |->
        [subscription_id |-> subscription_datas[k].subscription_id,
         sending_channel |-> subscription_datas[k].sending_channel,
         message |-> message,
         ok |-> subscription_datas[k].sending_channel \in live]]

\* subscriptions.values_mut() flattened: every entry of every list (the
\* order among keys is the map's and is not observable by any receiver)
RECURSIVE AllSubscriptionDatas(_, _)
AllSubscriptionDatas(subs, keys) ==
    IF keys = {} THEN <<>>
    ELSE LET k == CHOOSE x \in keys : TRUE
         IN  subs[k] \o AllSubscriptionDatas(subs, keys \ {k})

\* the effect of the sends on the receiving ends
RECURSIVE Deliver(_, _)
Deliver(q, attempts) ==
    IF attempts = <<>> THEN q
    ELSE LET a == Head(attempts)
             q1 == IF a.ok
                   THEN [q EXCEPT ![a.sending_channel] = Append(@, a.message)]
                   ELSE q
         IN  Deliver(q1, Tail(attempts))

\* res: the last Err(WsSend) recorded, Ok(()) when none was
SendResult(attempts) ==
    IF \E k \in 1..Len(attempts) : ~attempts[k].ok THEN "WsSend" ELSE "Ok"

\* WsManager::send_to_all_subscriptions
send_to_all_subscriptions(subs, message, live) ==
    SendEach(AllSubscriptionDatas(subs, DOMAIN subs), message, live)

\* parse_and_send_data takes the subscriptions mutex on these paths only
TakesLock(data) ==
    \/ data.kind \in {"closed", "error", "binary"}
    \/ /\ data.kind = "text"
       /\ data.brace
       /\ ParseMessage(data.json) # MessageParseError
       /\ get_identifier(ParseMessage(data.json)) # ""

\* mutant: a parsed event goes to the entries of every topic
parse_and_send_unrouted(data, subs, live) ==
    CASE data.kind = "closed" -> send_to_all_subscriptions(subs, NoData, live)
      [] data.kind = "error" ->
            send_to_all_subscriptions(
                subs, HyperliquidError(GenericReader(data.err)), live)
      [] data.kind = "binary" ->
            send_to_all_subscriptions(
                subs, HyperliquidError(ReaderTextConversion(data.err)), live)
      [] data.kind = "text" ->
            IF ~TakesLock(data) THEN <<>>
            ELSE send_to_all_subscriptions(subs, ParseMessage(data.json), live)

\* mutant: an event with an empty identifier goes to every entry
parse_and_send_empty_to_all(data, subs, live) ==
    CASE data.kind = "closed" -> send_to_all_subscriptions(subs, NoData, live)
      [] data.kind = "error" ->
            send_to_all_subscriptions(
                subs, HyperliquidError(GenericReader(data.err)), live)
      [] data.kind = "binary" ->
            send_to_all_subscriptions(
                subs, HyperliquidError(ReaderTextConversion(data.err)), live)
      [] data.kind = "text" ->
            IF ~data.brace \/ ParseMessage(data.json) = MessageParseError THEN <<>>
            ELSE LET message == ParseMessage(data.json)
                     identifier == get_identifier(message)
                 IN  IF identifier = ""
                     THEN send_to_all_subscriptions(subs, message, live)
                     ELSE IF identifier \in DOMAIN subs
                          THEN SendEach(subs[identifier], message, live)
                          ELSE <<>>

\* the sends WsManager::parse_and_send_data makes for one value of the stream
parse_and_send_data(data, subs, live) ==
    CASE data.kind = "closed" -> send_to_all_subscriptions(subs, NoData, live)
      [] data.kind = "error" ->
            send_to_all_subscriptions(
                subs, HyperliquidError(GenericReader(data.err)), live)
      [] data.kind = "binary" ->
            send_to_all_subscriptions(
                subs, HyperliquidError(ReaderTextConversion(data.err)), live)
      [] data.kind = "text" ->
            IF ~TakesLock(data) THEN <<>>
            ELSE LET message == ParseMessage(data.json)
                     identifier == get_identifier(message)
                 IN  IF identifier \in DOMAIN subs
                     THEN SendEach(subs[identifier], message, live)
                     ELSE <<>>

\* the Result parse_and_send_data returns
parse_and_send_result(data, subs, live) ==
    IF data.kind = "text" /\ data.brace /\ ParseMessage(data.json) = MessageParseError
    THEN "JsonParse"
    ELSE SendResult(parse_and_send_data(data, subs, live))

(***************************************************************************)
(* The reader task (reader_fut).                                           *)
(***************************************************************************)
\* while !stop_flag.load(..): the test at the top of the loop
ReaderCheck ==
    /\ readerPc = "top"
    /\ readerPc' = IF stop_flag THEN "done" ELSE "read"
    /\ UNCHANGED <<subscriptions, subscription_id, subscription_identifiers,
                   stop_flag, subsLock, writerLock, facade, readerData, ended,
                   frames, pingPc, pings, queues, rxLive, wire, dispatched,
                   issued, removed, detached, pingResult>>

\* reader.next().await yields a value; a stream that has ended keeps yielding None
ReaderNext(data) ==
    /\ readerPc = "read"
    /\ frames < MaxFrames
    /\ ended => data.kind = "closed"
    /\ readerData' = data
    /\ ended' = (ended \/ data.kind = "closed")
    /\ frames' = frames + 1
    /\ readerPc' = "parse"
    /\ UNCHANGED <<subscriptions, subscription_id, subscription_identifiers,
                   stop_flag, subsLock, writerLock, facade, pingPc, pings,
                   queues, rxLive, wire, dispatched, issued, removed, detached,
                   pingResult>>

\* mutant: a transport error ends the loop
ReaderAfterExitOnError(data, result) == IF data.kind = "error" THEN "done" ELSE "top"

\* mutant: any Err parse_and_send_data returns ends the loop
ReaderAfterExitOnErr(data, result) == IF result # "Ok" THEN "done" ELSE "top"

\* where the loop goes once parse_and_send_data has returned: an Err is
\* logged, and the loop body ends
ReaderAfter(data, result) == "top"

\* WsManager::parse_and_send_data(data, &subscriptions).await, then the end
\* of the loop body
ReaderParse ==
    /\ readerPc = "parse"
    /\ TakesLock(readerData) => ~subsLock
    /\ LET attempts == parse_and_send_data(readerData, subscriptions, rxLive)
           result == parse_and_send_result(readerData, subscriptions, rxLive)
       IN  /\ queues' = Deliver(queues, attempts)
           /\ dispatched' = [n |-> frames, data |-> readerData,
                             attempts |-> attempts, result |-> result,
                             subscriptions |-> subscriptions, queues |-> queues,
                             live |-> rxLive, removed |-> removed]
           /\ readerPc' = ReaderAfter(readerData, result)
    /\ UNCHANGED <<subscriptions, subscription_id, subscription_identifiers,
                   stop_flag, subsLock, writerLock, facade, readerData, ended,
                   frames, pingPc, pings, rxLive, wire, issued, removed, detached,
                   pingResult>>

(***************************************************************************)
(* The writer mutex.                                                       *)
(***************************************************************************)
\* mutant: lock() returns whoever holds the mutex
WriterLockAlwaysFree(holder) == TRUE

\* writer.lock().await returns when no task holds the mutex
WriterLockFree(holder) == holder = "free"

(***************************************************************************)
(* The ping task (ping_fut).                                               *)
(***************************************************************************)
\* while !stop_flag.load(..)
PingCheck ==
    /\ pingPc = "top"
    /\ pingPc' = IF stop_flag THEN "done" ELSE "lock"
    /\ UNCHANGED <<subscriptions, subscription_id, subscription_identifiers,
                   stop_flag, subsLock, writerLock, facade, readerPc, readerData,
                   ended, frames, pings, queues, rxLive, wire, dispatched,
                   issued, removed, detached, pingResult>>

\* writer.lock().await (the pings sent before the stop are counted up to
\* MaxPings; the one the task may send after the stop is always explored)
PingLock ==
    /\ pingPc = "lock"
    /\ pings < MaxPings \/ stop_flag
    /\ WriterLockFree(writerLock)
    /\ writerLock' = "ping"
    /\ pingPc' = "send"
    /\ UNCHANGED <<subscriptions, subscription_id, subscription_identifiers,
                   stop_flag, subsLock, facade, readerPc, readerData, ended,
                   frames, pings, queues, rxLive, wire, dispatched, issued,
                   removed, detached, pingResult>>

\* mutant: a failed send of a ping ends the loop
PingAfterExitOnError(ok) == IF ok THEN "sleep" ELSE "done"

\* where the ping task goes once the send has returned: an Err is logged,
\* and the sleep follows
PingAfter(ok) == "sleep"

\* writer.send(ping).await: an error is logged; the guard is dropped
PingSend(ok) ==
    /\ pingPc = "send"
    /\ pings' = pings + 1
    /\ pingResult' = IF ok THEN "ok" ELSE "err"
    /\ writerLock' = "free"
    /\ pingPc' = PingAfter(ok)
    /\ UNCHANGED <<subscriptions, subscription_id, subscription_identifiers,
                   stop_flag, subsLock, facade, readerPc, readerData, ended,
                   frames, queues, rxLive, wire, dispatched, issued, removed,
                   detached>>

\* time::sleep(SEND_PING_INTERVAL).await returns
PingSleep ==
    /\ pingPc = "sleep"
    /\ pingPc' = "top"
    /\ UNCHANGED <<subscriptions, subscription_id, subscription_identifiers,
                   stop_flag, subsLock, writerLock, facade, readerPc, readerData,
                   ended, frames, pings, queues, rxLive, wire, dispatched,
                   issued, removed, detached, pingResult>>

(***************************************************************************)
(* add_subscription and remove_subscription (&mut self: one call at a time)*)
(***************************************************************************)
\* subscriptions.entry(identifier_entry).or_insert(Vec::new())
EntryOrInsert(subs, entry) ==
    IF entry \in DOMAIN subs THEN subs ELSE MapInsert(subs, entry, <<>>)

\* mutant: the userEvents test is missing
AlreadySubscribedNever(list, entry) == FALSE

\* !subscriptions.is_empty() && identifier_entry.eq("userEvents")
AlreadySubscribed(list, entry) == list # <<>> /\ entry = "userEvents"

\* mutant: every add subscribes upstream
NeedsSubscribeAlways(list) == TRUE

\* subscriptions.is_empty() in add_subscription: the subscribe frame is due
NeedsSubscribe(list) == list = <<>>

\* mutant: no remove unsubscribes upstream
NeedsUnsubscribeNever(list) == FALSE

\* mutant: every remove unsubscribes upstream
NeedsUnsubscribeAlways(list) == TRUE

\* subscriptions.is_empty() in remove_subscription: the unsubscribe frame is due
NeedsUnsubscribe(list) == list = <<>>

\* mutant: the counter is not bumped
NextSubscriptionIdSame(id) == id

\* self.subscription_id += 1
NextSubscriptionId(id) == id + 1

\* SubscriptionSendData { method, subscription }: the frame handed to the
\* writer, with the outcome of the send
SubscriptionSendData(method, identifier, ok) ==
    [method |-> method, subscription |-> FromJson(identifier), ok |-> ok]

\* mutant: an id counts as known once it was issued
IdKnownOnceIssued(index, id) == id < subscription_id

\* self.subscription_identifiers.get(&subscription_id) is Some
IdKnown(index, id) == id \in DOMAIN index

\* self.subscription_identifiers.get(&subscription_id): None is ""
LookupIdentifier(index, id) == IF id \in DOMAIN index THEN index[id] ELSE ""

\* subscriptions.iter().position(|d| d.subscription_id == subscription_id): None is 0
Position(list, id) ==
    IF \E k \in 1..Len(list) : list[k].subscription_id = id
    THEN CHOOSE k \in 1..Len(list) :
            /\ list[k].subscription_id = id
            /\ \A j \in 1..(k - 1) : list[j].subscription_id # id
    ELSE 0

\* mutant: the entry stays in the list
VecRemoveNothing(list, index) == list

\* subscriptions.remove(index)
VecRemove(list, index) ==
    [k \in 1..(Len(list) - 1) |-> IF k < index THEN list[k] ELSE list[k + 1]]

\* the call returns: the guards it holds are dropped
Return(call, result, id) == [call EXCEPT !.pc = "idle", !.result = result, !.id = id]

\* the tail of add_subscription: record the identifier, push the entry,
\* bump the counter, return Ok(subscription_id)
AddFinish(call, subs) ==
    /\ subscription_identifiers' =
           MapInsert(subscription_identifiers, subscription_id, call.identifier)
    /\ subscriptions' =
           [subs EXCEPT ![call.entry] =
               Append(@, SubscriptionData(call.chan, subscription_id))]
    /\ subscription_id' = NextSubscriptionId(subscription_id)
    /\ facade' = Return(call, "Ok", subscription_id)
    /\ issued' = Append(issued, subscription_id)
    /\ subsLock' = FALSE

\* add_subscription(identifier, sending_channel) up to its first wait on the
\* writer; the caller made the channel for this call
AddCall(identifier) ==
    /\ facade.pc = "idle"
    /\ ~stop_flag
    /\ ~subsLock
    /\ facade.n < MaxCalls
    /\ LET chan == facade.n + 1
           entry == IdentifierEntry(identifier)
           call == [pc |-> "add_lock", n |-> facade.n + 1, op |-> "add",
                    identifier |-> identifier, id |-> -1, chan |-> chan,
                    entry |-> entry, result |-> "none", before |-> Before]
           subs == EntryOrInsert(subscriptions, entry)
       IN  /\ queues' = MapInsert(queues, chan, <<>>)
           /\ rxLive' = rxLive \cup {chan}
           /\ IF FromJson(identifier) = JsonParseError
              THEN /\ facade' = Return(call, "JsonParse", -1)
                   /\ UNCHANGED <<subscriptions, subscription_id,
                                  subscription_identifiers, subsLock, issued>>
              ELSE IF AlreadySubscribed(subs[entry], entry)
              THEN /\ facade' = Return(call, "UserEvents", -1)
                   /\ subscriptions' = subs
                   /\ UNCHANGED <<subscription_id, subscription_identifiers,
                                  subsLock, issued>>
              ELSE IF NeedsSubscribe(subs[entry])
              THEN /\ facade' = call
                   /\ subscriptions' = subs
                   /\ subsLock' = TRUE
                   /\ UNCHANGED <<subscription_id, subscription_identifiers, issued>>
              ELSE AddFinish(call, subs)
    /\ UNCHANGED <<stop_flag, writerLock, readerPc, readerData, ended, frames,
                   pingPc, pings, wire, dispatched, removed, detached,
                   pingResult>>

\* self.writer.lock().await in add_subscription
AddLockWriter ==
    /\ facade.pc = "add_lock"
    /\ WriterLockFree(writerLock)
    /\ writerLock' = "facade"
    /\ facade' = [facade EXCEPT !.pc = "add_send"]
    /\ UNCHANGED <<subscriptions, subscription_id, subscription_identifiers,
                   stop_flag, subsLock, readerPc, readerData, ended, frames,
                   pingPc, pings, queues, rxLive, wire, dispatched, issued,
                   removed, detached, pingResult>>

\* writer.send(subscribe).await, then the tail of add_subscription, or Err
AddSend(ok) ==
    /\ facade.pc = "add_send"
    /\ wire' = Append(wire, SubscriptionSendData("subscribe", facade.identifier, ok))
    /\ writerLock' = "free"
    /\ IF ok
       THEN AddFinish(facade, subscriptions)
       ELSE /\ facade' = Return(facade, "Websocket", -1)
            /\ subsLock' = FALSE
            /\ UNCHANGED <<subscriptions, subscription_id,
                           subscription_identifiers, issued>>
    /\ UNCHANGED <<stop_flag, readerPc, readerData, ended, frames, pingPc,
                   pings, queues, rxLive, dispatched, removed, detached,
                   pingResult>>

\* the ids callers pass to remove_subscription: issued ones and others
Ids == 0..MaxCalls

\* the ids used where the reader task runs beside the calls
RoutedIds == 0..(MaxRoutedCalls - 1)

\* remove_subscription(subscription_id) up to its wait on the subscriptions
\* mutex: the lookup, the identifier_entry, the removal from the index
RemoveCall(id) ==
    /\ facade.pc = "idle"
    /\ ~stop_flag
    /\ facade.n < MaxCalls
    /\ LET identifier == LookupIdentifier(subscription_identifiers, id)
           call == [pc |-> "rm_subs", n |-> facade.n + 1, op |-> "remove",
                    identifier |-> identifier, id |-> id, chan |-> 0,
                    entry |-> IdentifierEntry(identifier), result |-> "none",
                    before |-> Before]
       IN  IF ~IdKnown(subscription_identifiers, id)
           THEN /\ facade' = Return(call, "SubscriptionNotFound", id)
                /\ UNCHANGED subscription_identifiers
           ELSE IF FromJson(identifier) = JsonParseError
           THEN /\ facade' = Return(call, "JsonParse", id)
                /\ UNCHANGED subscription_identifiers
           ELSE /\ facade' = call
                /\ subscription_identifiers' = MapRemove(subscription_identifiers, id)
    /\ UNCHANGED <<subscriptions, subscription_id, stop_flag, subsLock,
                   writerLock, readerPc, readerData, ended, frames, pingPc,
                   pings, queues, rxLive, wire, dispatched, issued, removed, detached,
                   pingResult>>

\* self.subscriptions.lock().await, get_mut, position, remove(index), and
\* the return when the list is not empty
RemoveLocked ==
    /\ facade.pc = "rm_subs"
    /\ ~subsLock
    /\ IF facade.entry \notin DOMAIN subscriptions
       THEN /\ facade' = Return(facade, "SubscriptionNotFound", facade.id)
            /\ UNCHANGED <<subscriptions, subsLock, removed, detached>>
       ELSE LET list == subscriptions[facade.entry]
                index == Position(list, facade.id)
            IN  IF index = 0
                THEN /\ facade' = Return(facade, "SubscriptionNotFound", facade.id)
                     /\ UNCHANGED <<subscriptions, subsLock, removed, detached>>
                ELSE /\ subscriptions' =
                            [subscriptions EXCEPT ![facade.entry] = VecRemove(list, index)]
                     /\ detached' = detached \cup {facade.id}
                     /\ IF NeedsUnsubscribe(VecRemove(list, index))
                        THEN /\ facade' = [facade EXCEPT !.pc = "rm_lock",
                                                         !.chan = list[index].sending_channel]
                             /\ subsLock' = TRUE
                             /\ UNCHANGED removed
                        ELSE /\ facade' = Return([facade EXCEPT
                                                     !.chan = list[index].sending_channel],
                                                 "Ok", facade.id)
                             /\ removed' = removed \cup {list[index]}
                             /\ UNCHANGED subsLock
    /\ UNCHANGED <<subscription_id, subscription_identifiers, stop_flag,
                   writerLock, readerPc, readerData, ended, frames, pingPc,
                   pings, queues, rxLive, wire, dispatched, issued, pingResult>>

\* self.writer.lock().await in remove_subscription
RemoveLockWriter ==
    /\ facade.pc = "rm_lock"
    /\ WriterLockFree(writerLock)
    /\ writerLock' = "facade"
    /\ facade' = [facade EXCEPT !.pc = "rm_send"]
    /\ UNCHANGED <<subscriptions, subscription_id, subscription_identifiers,
                   stop_flag, subsLock, readerPc, readerData, ended, frames,
                   pingPc, pings, queues, rxLive, wire, dispatched, issued,
                   removed, detached, pingResult>>

\* writer.send(unsubscribe).await, then Ok(()) or Err
RemoveSend(ok) ==
    /\ facade.pc = "rm_send"
    /\ wire' = Append(wire, SubscriptionSendData("unsubscribe", facade.identifier, ok))
    /\ writerLock' = "free"
    /\ subsLock' = FALSE
    /\ facade' = Return(facade, IF ok THEN "Ok" ELSE "Websocket", facade.id)
    /\ removed' = IF ok
                  THEN removed \cup {SubscriptionData(facade.chan, facade.id)}
                  ELSE removed
    /\ UNCHANGED <<subscriptions, subscription_id, subscription_identifiers,
                   stop_flag, readerPc, readerData, ended, frames, pingPc,
                   pings, queues, rxLive, dispatched, issued, detached,
                   pingResult>>

(***************************************************************************)
(* The environment: the manager's owner and the receivers.                 *)
(***************************************************************************)
\* impl Drop for WsManager
Drop ==
    /\ facade.pc = "idle"
    /\ ~stop_flag
    /\ stop_flag' = TRUE
    /\ UNCHANGED <<subscriptions, subscription_id, subscription_identifiers,
                   subsLock, writerLock, facade, readerPc, readerData, ended,
                   frames, pingPc, pings, queues, rxLive, wire, dispatched,
                   issued, removed, detached, pingResult>>

\* a caller drops the receiving end of a channel: sends to it fail from now
\* on (the drop of a channel no entry holds is not observable and is left out)
DropReceiver(chan) ==
    /\ chan \in rxLive
    /\ \E k \in DOMAIN subscriptions : \E i \in 1..Len(subscriptions[k]) :
           subscriptions[k][i].sending_channel = chan
    /\ Cardinality(DOMAIN queues \ rxLive) < MaxDrops
    /\ rxLive' = rxLive \ {chan}
    /\ UNCHANGED <<subscriptions, subscription_id, subscription_identifiers,
                   stop_flag, subsLock, writerLock, facade, readerPc,
                   readerData, ended, frames, pingPc, pings, queues, wire,
                   dispatched, issued, removed, detached, pingResult>>

\* the calls alone: every identifier, every id
NextFacade ==
    \/ \E identifier \in Identifiers : AddCall(identifier)
    \/ AddLockWriter
    \/ \E ok \in BOOLEAN : AddSend(ok)
    \/ \E id \in Ids : RemoveCall(id)
    \/ RemoveLocked
    \/ RemoveLockWriter
    \/ \E ok \in BOOLEAN : RemoveSend(ok)
    \/ Drop

SpecFacade == Init /\ [][NextFacade]_vars

\* the reader task beside the calls and the receivers
NextDispatch ==
    \/ \E identifier \in RoutedIdentifiers :
            facade.n < MaxRoutedCalls /\ AddCall(identifier)
    \/ AddLockWriter
    \/ \E ok \in BOOLEAN : AddSend(ok)
    \/ \E id \in RoutedIds : facade.n < MaxRoutedCalls /\ RemoveCall(id)
    \/ RemoveLocked
    \/ RemoveLockWriter
    \/ \E ok \in BOOLEAN : RemoveSend(ok)
    \/ Drop
    \/ \E chan \in DOMAIN queues : DropReceiver(chan)
    \/ ReaderCheck
    \/ \E data \in RoutedFrames : ReaderNext(data)
    \/ ReaderParse

SpecDispatch == Init /\ [][NextDispatch]_vars

\* the reader task on every kind of frame, beside add_subscription
NextInbound ==
    \/ \E identifier \in InboundIdentifiers :
            facade.n < MaxInboundCalls /\ AddCall(identifier)
    \/ AddLockWriter
    \/ \E ok \in BOOLEAN : AddSend(ok)
    \/ Drop
    \/ ReaderCheck
    \/ \E data \in InboundFrames : frames < MaxInboundFrames /\ ReaderNext(data)
    \/ ReaderParse

SpecInbound == Init /\ [][NextInbound]_vars

\* add_subscription with each descriptor, the reader task on the event of
\* each descriptor
NextTopics ==
    \/ \E identifier \in AllIdentifiers :
            facade.n < MaxTopicCalls /\ AddCall(identifier)
    \/ AddLockWriter
    \/ \E ok \in BOOLEAN : AddSend(ok)
    \/ ReaderCheck
    \/ \E data \in EventFrames : frames < MaxInboundFrames /\ ReaderNext(data)
    \/ ReaderParse

SpecTopics == Init /\ [][NextTopics]_vars

\* the ids used where both tasks run beside the calls
LoopIds == 0..(MaxLoopCalls - 1)

\* the calls beside the reader task and the ping task
NextLoops ==
    \/ \E identifier \in LoopIdentifiers :
            facade.n < MaxLoopCalls /\ AddCall(identifier)
    \/ AddLockWriter
    \/ \E ok \in BOOLEAN : AddSend(ok)
    \/ \E id \in LoopIds : facade.n < MaxLoopCalls /\ RemoveCall(id)
    \/ RemoveLocked
    \/ RemoveLockWriter
    \/ \E ok \in BOOLEAN : RemoveSend(ok)
    \/ Drop
    \/ ReaderCheck
    \/ \E data \in LoopFrames : frames < MaxLoopFrames /\ ReaderNext(data)
    \/ ReaderParse
    \/ PingCheck
    \/ PingLock
    \/ \E ok \in BOOLEAN : PingSend(ok)
    \/ PingSleep

SpecLoops == Init /\ [][NextLoops]_vars

\* fewer calls beside the ping task and the reader task on a frame it
\* must lock the subscriptions mutex for
NextLocks ==
    \/ \E identifier \in LoopIdentifiers :
            facade.n < MaxRoutedCalls /\ AddCall(identifier)
    \/ AddLockWriter
    \/ \E ok \in BOOLEAN : AddSend(ok)
    \/ \E id \in RoutedIds : facade.n < MaxRoutedCalls /\ RemoveCall(id)
    \/ RemoveLocked
    \/ RemoveLockWriter
    \/ \E ok \in BOOLEAN : RemoveSend(ok)
    \/ Drop
    \/ ReaderCheck
    \/ \E data \in LockFrames : frames < MaxLoopFrames /\ ReaderNext(data)
    \/ ReaderParse
    \/ PingCheck
    \/ PingLock
    \/ \E ok \in BOOLEAN : PingSend(ok)
    \/ PingSleep

\* the runtime runs the ping task: the send to the writer and the sleep
\* return, and the writer mutex, once no call can take it, is granted
PingFairness ==
    /\ WF_vars(PingCheck)
    /\ WF_vars(PingLock)
    /\ WF_vars(\E ok \in BOOLEAN : PingSend(ok))
    /\ WF_vars(PingSleep)

\* the runtime runs the ping task and the call in progress: a send to the
\* writer and the sleep return, and a task waiting on the writer mutex (a
\* fair, first-in first-out tokio Mutex) gets it when it is released
Fairness ==
    /\ WF_vars(PingCheck)
    /\ SF_vars(PingLock)
    /\ WF_vars(\E ok \in BOOLEAN : PingSend(ok))
    /\ WF_vars(PingSleep)
    /\ SF_vars(AddLockWriter)
    /\ WF_vars(\E ok \in BOOLEAN : AddSend(ok))
    /\ WF_vars(RemoveLocked)
    /\ SF_vars(RemoveLockWriter)
    /\ WF_vars(\E ok \in BOOLEAN : RemoveSend(ok))

SpecLocks == Init /\ [][NextLocks]_vars /\ Fairness

\* both tasks and the drop of the manager, beside add_subscription
NextStop ==
    \/ \E identifier \in LoopIdentifiers :
            facade.n < MaxTopicCalls /\ AddCall(identifier)
    \/ AddLockWriter
    \/ \E ok \in BOOLEAN : AddSend(ok)
    \/ Drop
    \/ ReaderCheck
    \/ \E data \in LoopFrames : frames < MaxLoopFrames /\ ReaderNext(data)
    \/ ReaderParse
    \/ PingCheck
    \/ PingLock
    \/ \E ok \in BOOLEAN : PingSend(ok)
    \/ PingSleep

SpecStop == Init /\ [][NextStop]_vars /\ PingFairness

\* the whole program: the calls, both tasks, the receivers
Next ==
    \/ \E identifier \in Identifiers : AddCall(identifier)
    \/ AddLockWriter
    \/ \E ok \in BOOLEAN : AddSend(ok)
    \/ \E id \in Ids : RemoveCall(id)
    \/ RemoveLocked
    \/ RemoveLockWriter
    \/ \E ok \in BOOLEAN : RemoveSend(ok)
    \/ Drop
    \/ \E chan \in DOMAIN queues : DropReceiver(chan)
    \/ ReaderCheck
    \/ \E data \in Frames : ReaderNext(data)
    \/ ReaderParse
    \/ PingCheck
    \/ PingLock
    \/ \E ok \in BOOLEAN : PingSend(ok)
    \/ PingSleep

Spec == Init /\ [][Next]_vars

(***************************************************************************)
(* Properties of add_subscription and remove_subscription.                 *)
(***************************************************************************)
\* C2: an add_subscription whose coalesced topic already has at least one
\* entry in the registry hands no frame to the writer; it returns at once.
C2_NoSubscribeWhenTopicHasSubscribers ==
    (/\ facade.op = "add"
     /\ FromJson(facade.identifier) # JsonParseError
     /\ IdentifierEntry(facade.identifier) \in DOMAIN facade.before.subscriptions
     /\ facade.before.subscriptions[IdentifierEntry(facade.identifier)] # <<>>)
    => /\ facade.pc = "idle"
       /\ wire = facade.before.wire

\* C2 witness: a second orderUpdates add, for another user, has joined the
\* first one's topic, and the wire holds the first one's subscribe only.
C2_Witness ==
    /\ facade.pc = "idle" /\ facade.op = "add" /\ facade.result = "Ok"
    /\ "orderUpdates" \in DOMAIN subscriptions
    /\ Len(subscriptions["orderUpdates"]) = 2
    /\ \E i, j \in DOMAIN subscription_identifiers :
          /\ FromJson(subscription_identifiers[i]).type = "orderUpdates"
          /\ FromJson(subscription_identifiers[j]).type = "orderUpdates"
          /\ subscription_identifiers[i] # subscription_identifiers[j]
    /\ Len(wire) = 1 /\ wire[1].method = "subscribe"

\* C3: a remove_subscription that takes the last entry out of its topic's
\* list hands exactly one frame, an unsubscribe, to the writer; one that
\* leaves an entry in the list hands none.
C3_UnsubscribeExactlyWhenEmptied ==
    (/\ facade.pc = "idle"
     /\ facade.op = "remove"
     /\ facade.id \in detached \ facade.before.detached)
    => LET subs0 == facade.before.subscriptions
           topic == CHOOSE k \in DOMAIN subs0 :
                       \E i \in 1..Len(subs0[k]) :
                           subs0[k][i].subscription_id = facade.id
       IN  IF Len(subs0[topic]) = 1
           THEN /\ Len(wire) = Len(facade.before.wire) + 1
                /\ SubSeq(wire, 1, Len(facade.before.wire)) = facade.before.wire
                /\ wire[Len(wire)].method = "unsubscribe"
           ELSE wire = facade.before.wire

\* C3 witness: two entries of one topic were removed one after the other;
\* the first removal sent nothing, the second sent the unsubscribe.
C3_Witness ==
    /\ facade.pc = "idle" /\ facade.op = "remove" /\ facade.result = "Ok"
    /\ Cardinality(detached) = 2
    /\ Len(wire) = 2
    /\ wire[1].method = "subscribe" /\ wire[2].method = "unsubscribe"
    /\ \A k \in DOMAIN subscriptions : subscriptions[k] = <<>>

\* C4: the list of "userEvents" never holds more than one entry, and an
\* add_subscription of a UserEvents descriptor made while it holds one
\* returns Error::UserEvents, sends nothing, and leaves the registry, the
\* id index and the id counter as they were.
C4_UserEventsSingleSubscriber ==
    /\ "userEvents" \in DOMAIN subscriptions => Len(subscriptions["userEvents"]) <= 1
    /\ (/\ facade.op = "add"
        /\ FromJson(facade.identifier).type = "userEvents"
        /\ "userEvents" \in DOMAIN facade.before.subscriptions
        /\ facade.before.subscriptions["userEvents"] # <<>>)
       => /\ facade.pc = "idle"
          /\ facade.result = "UserEvents"
          /\ wire = facade.before.wire
          /\ subscriptions = facade.before.subscriptions
          /\ subscription_identifiers = facade.before.subscription_identifiers
          /\ subscription_id = facade.before.subscription_id

\* C4 witness: a UserEvents add for one user was refused while the entry of
\* another user is registered.
C4_Witness ==
    /\ facade.op = "add" /\ facade.result = "UserEvents"
    /\ Len(subscriptions["userEvents"]) = 1
    /\ subscription_identifiers[subscriptions["userEvents"][1].subscription_id]
          # facade.identifier

\* C5: the ids returned by successful add_subscription calls are strictly
\* increasing in call order, whatever calls failed or removed in between.
C5_IdsStrictlyIncreasing ==
    /\ \A i, j \in 1..Len(issued) : i < j => issued[i] < issued[j]
    /\ (facade.pc = "idle" /\ facade.op = "add" /\ facade.result = "Ok")
          => (issued # <<>> /\ facade.id = issued[Len(issued)])

\* C5 witness: an id was issued after the holder of an earlier id was
\* removed and after a failed call.
C5_Witness ==
    /\ facade.pc = "idle" /\ facade.op = "add" /\ facade.result = "Ok"
    /\ Len(issued) = 2
    /\ issued[1] \in detached
    /\ facade.n > 3

\* C6: remove_subscription with an id that was never issued, or that an
\* earlier remove_subscription took out, returns SubscriptionNotFound, sends
\* nothing, and leaves the registry, the id index and the id counter as
\* they were.
C6_RemoveUnknownIdChangesNothing ==
    (/\ facade.op = "remove"
     /\ \/ \A k \in 1..Len(issued) : issued[k] # facade.id
        \/ facade.id \in facade.before.detached)
    => /\ facade.pc = "idle"
       /\ facade.result = "SubscriptionNotFound"
       /\ wire = facade.before.wire
       /\ subscriptions = facade.before.subscriptions
       /\ subscription_identifiers = facade.before.subscription_identifiers
       /\ subscription_id = facade.before.subscription_id

\* C6 witness: the same id was removed twice while another entry stays
\* registered; the second call found nothing.
C6_Witness ==
    /\ facade.op = "remove" /\ facade.result = "SubscriptionNotFound"
    /\ facade.id \in facade.before.detached
    /\ DOMAIN subscription_identifiers # {}

(***************************************************************************)
(* Properties of the reader task.                                          *)
(***************************************************************************)
\* C1: an inbound event whose derived topic T is not empty is sent, payload
\* and tag as they came, once to each entry the list of T holds when it is
\* dispatched, and to no entry of another topic.
C1_RoutedToTopicOnly ==
    (/\ dispatched.data.kind = "text"
     /\ dispatched.data.brace
     /\ ParseMessage(dispatched.data.json) # MessageParseError
     /\ get_identifier(ParseMessage(dispatched.data.json)) # "")
    => LET json == dispatched.data.json
           T == get_identifier(ParseMessage(json))
           subs == dispatched.subscriptions
           list == IF T \in DOMAIN subs THEN subs[T] ELSE <<>>
           att == dispatched.attempts
           got(c) == {k \in 1..Len(list) :
                         list[k].sending_channel = c /\ c \in dispatched.live}
       IN  /\ Len(att) = Len(list)
           /\ \A k \in 1..Len(list) :
                 /\ att[k].subscription_id = list[k].subscription_id
                 /\ att[k].sending_channel = list[k].sending_channel
                 /\ ChannelOf[att[k].message.variant] = json.channel
                 /\ att[k].message.data = json.data
           /\ \A c \in DOMAIN dispatched.queues :
                 /\ Len(queues[c]) = Len(dispatched.queues[c]) + Cardinality(got(c))
                 /\ SubSeq(queues[c], 1, Len(dispatched.queues[c])) = dispatched.queues[c]
                 /\ \A i \in (Len(dispatched.queues[c]) + 1)..Len(queues[c]) :
                       /\ ChannelOf[queues[c][i].variant] = json.channel
                       /\ queues[c][i].data = json.data

\* C1 witness: an allMids event was dispatched while one entry was under
\* its topic and one under "orderUpdates"; only the first queue got it.
C1_Witness ==
    /\ dispatched.data.kind = "text" /\ dispatched.data.brace
    /\ Len(dispatched.attempts) = 1
    /\ "orderUpdates" \in DOMAIN dispatched.subscriptions
    /\ Len(dispatched.subscriptions["orderUpdates"]) = 1
    /\ queues[dispatched.subscriptions["orderUpdates"][1].sending_channel] = <<>>
    /\ Len(queues[dispatched.attempts[1].sending_channel]) = 1

\* C7 (as claimed): when the read half reports the end of the stream the
\* reader sends one NoData to every registered entry and its loop exits,
\* stop flag or not: no further read, no further delivery.
C7_CloseBroadcastsThenLoopExits ==
    /\ dispatched.data.kind = "closed"
          => LET subs == dispatched.subscriptions
                 all == UNION {{subs[k][i] : i \in 1..Len(subs[k])} : k \in DOMAIN subs}
             IN  /\ Len(dispatched.attempts) = Cardinality(all)
                 /\ \A h \in all : \E k \in 1..Len(dispatched.attempts) :
                       /\ dispatched.attempts[k].subscription_id = h.subscription_id
                       /\ dispatched.attempts[k].message = NoData
    /\ ended => readerPc # "read"
    /\ \A c \in DOMAIN queues :
          Cardinality({i \in 1..Len(queues[c]) : queues[c][i] = NoData}) <= 1

\* C8: in the fan-out of one event a failed send to an entry whose receiver
\* is gone does not keep the event from any other entry due to get it:
\* every such entry with a live receiver gets it, every entry is attempted,
\* and the error is what the step returns.
C8_FailedSendDoesNotStopFanOut ==
    (dispatched.n > 0 /\ TakesLock(dispatched.data))
    => LET subs == dispatched.subscriptions
           data == dispatched.data
           T == IF data.kind = "text"
                THEN get_identifier(ParseMessage(data.json)) ELSE ""
           due == IF data.kind = "text"
                  THEN IF T \in DOMAIN subs
                       THEN {subs[T][i] : i \in 1..Len(subs[T])} ELSE {}
                  ELSE UNION {{subs[k][i] : i \in 1..Len(subs[k])} : k \in DOMAIN subs}
           att == dispatched.attempts
       IN  /\ \A h \in due :
                 /\ \E k \in 1..Len(att) : att[k].subscription_id = h.subscription_id
                 /\ h.sending_channel \in dispatched.live
                       => /\ Len(queues[h.sending_channel])
                                = Len(dispatched.queues[h.sending_channel]) + 1
                          /\ \E k \in 1..Len(att) :
                                /\ att[k].subscription_id = h.subscription_id
                                /\ queues[h.sending_channel][Len(queues[h.sending_channel])]
                                       = att[k].message
           /\ (\E h \in due : h.sending_channel \notin dispatched.live)
                 <=> dispatched.result = "WsSend"

\* C8 witness: the send to the first entry of a list failed and the entry
\* after it got the event; the step returned the error.
C8_Witness ==
    /\ dispatched.data.kind = "text"
    /\ dispatched.result = "WsSend"
    /\ Len(dispatched.attempts) = 2
    /\ ~dispatched.attempts[1].ok
    /\ dispatched.attempts[2].ok
    /\ queues[dispatched.attempts[2].sending_channel] = <<dispatched.attempts[2].message>>

\* C9: no event the reader dispatches after remove_subscription(id) returned
\* Ok is sent to the entry of that id: its queue stays as it was.
C9_NoDeliveryAfterRemove ==
    \A r \in dispatched.removed :
        /\ \A k \in 1..Len(dispatched.attempts) :
              dispatched.attempts[k].subscription_id # r.subscription_id
        /\ queues[r.sending_channel] = dispatched.queues[r.sending_channel]

\* C9 witness: an allMids entry got one event, was removed with the
\* unsubscribe sent, and the next allMids event went to nobody.
C9_Witness ==
    /\ dispatched.removed # {}
    /\ dispatched.data.kind = "text" /\ dispatched.data.brace
    /\ dispatched.n = 2
    /\ dispatched.attempts = <<>>
    /\ \E r \in dispatched.removed : Len(queues[r.sending_channel]) = 1
    /\ \E i \in 1..Len(wire) :
          wire[i].method = "unsubscribe" /\ wire[i].subscription.type = "allMids"

\* C10: on a transport error the reader sends one error event carrying the
\* error text to every registered entry, leaves the registry as it is, and
\* goes back to the top of its loop; it exits on the stop flag only.
C10_TransportErrorBroadcastAndContinue ==
    /\ [](readerPc = "done" => stop_flag)
    /\ [][(dispatched'.n # dispatched.n /\ dispatched'.data.kind = "error")
          => LET all == UNION {{subscriptions[k][i] : i \in 1..Len(subscriptions[k])} :
                                  k \in DOMAIN subscriptions}
                 att == dispatched'.attempts
                 text == GenericReader(dispatched'.data.err)
             IN  /\ Len(att) = Cardinality(all)
                 /\ \A h \in all : \E k \in 1..Len(att) :
                       /\ att[k].subscription_id = h.subscription_id
                       /\ att[k].sending_channel = h.sending_channel
                       /\ att[k].message = HyperliquidError(text)
                 /\ \A c \in DOMAIN queues :
                       queues'[c] =
                          IF c \in rxLive /\ \E h \in all : h.sending_channel = c
                          THEN Append(queues[c], HyperliquidError(text))
                          ELSE queues[c]
                 /\ subscriptions' = subscriptions
                 /\ subscription_identifiers' = subscription_identifiers
                 /\ subscription_id' = subscription_id
                 /\ readerPc' = "top"]_vars

\* C10 witness: a transport error reached two entries under two topics and
\* the reader has pulled the next frame.
C10_Witness ==
    /\ dispatched.data.kind = "error"
    /\ Len(dispatched.attempts) = 2
    /\ Cardinality({k \in DOMAIN dispatched.subscriptions :
                       dispatched.subscriptions[k] # <<>>}) = 2
    /\ \A k \in 1..2 :
          queues[dispatched.attempts[k].sending_channel]
             = <<HyperliquidError(GenericReader(dispatched.data.err))>>
    /\ frames = dispatched.n + 1
    /\ readerPc = "parse"

(***************************************************************************)
(* Properties of the registry, the id index and the frames sent upstream.  *)
(***************************************************************************)
\* C15 (as claimed): the descriptor an unsubscribe frame carries is the one
\* carried by the latest subscribe frame sent for the same topic.
C15_UnsubscribeCarriesSubscribedDescriptor ==
    \A i \in 1..Len(wire) :
        wire[i].method = "unsubscribe"
        => LET topic(f) == IdentifierEntry(ToJson(f.subscription))
               prev == {j \in 1..(i - 1) :
                           /\ wire[j].method = "subscribe"
                           /\ wire[j].ok
                           /\ topic(wire[j]) = topic(wire[i])}
           IN  /\ prev # {}
               /\ wire[CHOOSE j \in prev : \A m \in prev : m <= j].subscription
                     = wire[i].subscription

\* C16 (as claimed): add_subscription for the first entry of a topic sends
\* the subscribe frame before it changes the registry; when the send fails
\* the registry (keys and lists), the id index and the id counter are as
\* they were when the call was made.
C16_SubscribeSentBeforeRegistryChanges ==
    /\ (facade.op = "add" /\ facade.pc \in {"add_lock", "add_send"})
          => subscriptions = facade.before.subscriptions
    /\ (facade.op = "add" /\ facade.pc = "idle" /\ facade.result = "Websocket")
          => /\ subscriptions = facade.before.subscriptions
             /\ subscription_identifiers = facade.before.subscription_identifiers
             /\ subscription_id = facade.before.subscription_id

\* C17 (as claimed): while add/remove does not hold the subscriptions mutex
\* every key of the registry maps to a list that is not empty.
C17_NoEmptyListUnderAKey ==
    ~subsLock => \A k \in DOMAIN subscriptions : subscriptions[k] # <<>>

\* C20: between calls the ids of the id index are the ids of the entries in
\* the registry, and each id is in one list only, once: the list under the
\* coalesced topic of the identifier the index holds for it.
C20_IndexMatchesRegistry ==
    facade.pc = "idle"
    => LET where(id) == {<<k, i>> \in (DOMAIN subscriptions) \X (1..MaxCalls) :
                            /\ i <= Len(subscriptions[k])
                            /\ subscriptions[k][i].subscription_id = id}
       IN  /\ \A k \in DOMAIN subscriptions : \A i \in 1..Len(subscriptions[k]) :
                 subscriptions[k][i].subscription_id \in DOMAIN subscription_identifiers
           /\ \A id \in DOMAIN subscription_identifiers :
                 /\ Cardinality(where(id)) = 1
                 /\ \A w \in where(id) :
                       w[1] = IdentifierEntry(subscription_identifiers[id])

\* C20 witness: after an add whose send failed and a removal, an entry of
\* a coalesced topic is still registered.
C20_Witness ==
    /\ facade.pc = "idle"
    /\ detached # {}
    /\ \E i \in 1..Len(wire) : ~wire[i].ok
    /\ \E id \in DOMAIN subscription_identifiers :
          IdentifierEntry(subscription_identifiers[id]) # subscription_identifiers[id]

(***************************************************************************)
(* Properties of the reader task on every kind of frame.                   *)
(***************************************************************************)
\* C11: an inbound event whose identifier is empty (trades with an empty
\* batch, subscriptionResponse, pong, noData) is sent to no entry, and the
\* step that handles it leaves the queues, the registry, the id index and
\* the id counter as they are, whatever is registered.
C11_EmptyIdentifierNoDelivery ==
    [][(/\ dispatched'.n # dispatched.n
        /\ dispatched'.data.kind = "text"
        /\ dispatched'.data.brace
        /\ \/ dispatched'.data.json.channel \in {"subscriptionResponse", "pong", "noData"}
           \/ /\ dispatched'.data.json.channel = "trades"
              /\ dispatched'.data.json.data.batch = <<>>)
       => /\ ParseMessage(dispatched'.data.json) # MessageParseError
          /\ get_identifier(ParseMessage(dispatched'.data.json)) = ""
          /\ dispatched'.attempts = <<>>
          /\ dispatched'.result = "Ok"
          /\ queues' = queues
          /\ subscriptions' = subscriptions
          /\ subscription_identifiers' = subscription_identifiers
          /\ subscription_id' = subscription_id]_vars

\* C11 witness: a trades event with an empty batch was handled while an
\* entry was registered under a trades topic and one under allMids; no
\* queue got anything.
C11_Witness ==
    /\ dispatched.n > 0
    /\ dispatched.data.kind = "text" /\ dispatched.data.brace
    /\ dispatched.data.json = [channel |-> "trades", data |-> [batch |-> <<>>]]
    /\ Cardinality({k \in DOMAIN dispatched.subscriptions :
                       dispatched.subscriptions[k] # <<>>}) = 2
    /\ dispatched.attempts = <<>>
    /\ \A c \in DOMAIN queues : queues[c] = <<>>
\* C18 (as claimed): every inbound failure (a transport error, a frame that
\* is not text, a text frame opening with a brace that does not parse as a
\* Message) is sent as an error event to every registered entry, and the
\* reader's loop goes on.
C18_EveryInboundFailureBroadcast ==
    /\ readerPc = "done" => stop_flag
    /\ (/\ dispatched.n > 0
        /\ \/ dispatched.data.kind \in {"error", "binary"}
           \/ /\ dispatched.data.kind = "text"
              /\ dispatched.data.brace
              /\ ParseMessage(dispatched.data.json) = MessageParseError)
       => LET subs == dispatched.subscriptions
              all == UNION {{subs[k][i] : i \in 1..Len(subs[k])} : k \in DOMAIN subs}
          IN  \A h \in all : \E k \in 1..Len(dispatched.attempts) :
                 /\ dispatched.attempts[k].subscription_id = h.subscription_id
                 /\ dispatched.attempts[k].message.variant = "HyperliquidError"

\* C18 (amended): a transport error and a frame that is not text are each
\* sent as one error event, carrying the error text, to every registered
\* entry; a text frame opening with a brace that does not parse as a Message
\* is sent to nobody and the step returns the JsonParse error; in each case
\* the reader's loop goes on, and it exits on the stop flag only.
C18_FailuresBroadcastExceptJsonParse ==
    /\ [](readerPc = "done" => stop_flag)
    /\ [][dispatched'.n # dispatched.n
          => LET data == dispatched'.data
                 all == UNION {{subscriptions[k][i] : i \in 1..Len(subscriptions[k])} :
                                  k \in DOMAIN subscriptions}
                 att == dispatched'.attempts
                 broadcast(message) ==
                     /\ Len(att) = Cardinality(all)
                     /\ \A h \in all : \E k \in 1..Len(att) :
                           /\ att[k].subscription_id = h.subscription_id
                           /\ att[k].message = message
                     /\ \A c \in DOMAIN queues :
                           queues'[c] =
                              IF \E h \in all : h.sending_channel = c
                              THEN Append(queues[c], message)
                              ELSE queues[c]
                     /\ dispatched'.result = "Ok"
             IN  /\ data.kind = "error"
                       => broadcast(HyperliquidError(GenericReader(data.err)))
                 /\ data.kind = "binary"
                       => broadcast(HyperliquidError(ReaderTextConversion(data.err)))
                 /\ (/\ data.kind = "text"
                     /\ data.brace
                     /\ ParseMessage(data.json) = MessageParseError)
                       => /\ att = <<>>
                          /\ dispatched'.result = "JsonParse"
                          /\ queues' = queues
                 /\ readerPc' = "top"]_vars

\* C18 witness: a text frame with an unknown tag was handled while two
\* entries were registered; nothing was sent, and the reader is back at
\* its read.
C18_Witness ==
    /\ dispatched.n > 0
    /\ dispatched.data.kind = "text" /\ dispatched.data.brace
    /\ ParseMessage(dispatched.data.json) = MessageParseError
    /\ Cardinality({k \in DOMAIN dispatched.subscriptions :
                       dispatched.subscriptions[k] # <<>>}) = 2
    /\ dispatched.result = "JsonParse"
    /\ \A c \in DOMAIN queues : queues[c] = <<>>
    /\ readerPc = "read"
    /\ ~stop_flag

(***************************************************************************)
(* Properties of the topic of a descriptor and the topic of its event.     *)
(***************************************************************************)
\* C14 (as claimed): for each variant of Subscription the topic an entry is
\* registered under is the topic get_identifier derives from the event of
\* the same kind with the same coin, interval or user; so an event handled
\* while an entry of its descriptor is registered is sent to that entry.
C14_RegisteredTopicIsDerivedTopic ==
    (dispatched.n > 0 /\ dispatched.data.kind = "text" /\ dispatched.data.brace)
    => LET subs == dispatched.subscriptions
           all == UNION {{subs[k][i] : i \in 1..Len(subs[k])} : k \in DOMAIN subs}
       IN  \A h \in all :
              LET identifier == subscription_identifiers[h.subscription_id]
              IN  dispatched.data.json = EventOf(FromJson(identifier))
                  => /\ IdentifierEntry(identifier)
                           = get_identifier(ParseMessage(dispatched.data.json))
                     /\ \E k \in 1..Len(dispatched.attempts) :
                           dispatched.attempts[k].subscription_id = h.subscription_id

(***************************************************************************)
(* Properties of the calls beside the reader task and the ping task.       *)
(***************************************************************************)
\* C13: when every frame handed to the writer was sent and no call is in
\* progress, for each topic the subscribe frames sent less the unsubscribe
\* frames sent is 1 when the list of the topic holds an entry and 0 when it
\* holds none or the topic is no key, however the two tasks interleave.
C13_SubscribeBalance ==
    (facade.pc = "idle" /\ \A i \in 1..Len(wire) : wire[i].ok)
    => LET topic(f) == IdentifierEntry(ToJson(f.subscription))
           topics == DOMAIN subscriptions \cup {topic(wire[i]) : i \in 1..Len(wire)}
           sent(method, T) ==
               Cardinality({i \in 1..Len(wire) :
                               wire[i].method = method /\ topic(wire[i]) = T})
       IN  \A T \in topics :
              sent("subscribe", T) - sent("unsubscribe", T)
                 = IF T \in DOMAIN subscriptions /\ subscriptions[T] # <<>>
                   THEN 1 ELSE 0

\* C13 witness: a topic was subscribed, emptied and subscribed again, every
\* send succeeding, while the ping task sent a ping and the reader handled
\* a frame.
C13_Witness ==
    /\ facade.pc = "idle"
    /\ Len(wire) = 3
    /\ \A i \in 1..Len(wire) : wire[i].ok
    /\ wire[1].method = "subscribe"
    /\ wire[2].method = "unsubscribe"
    /\ wire[3].method = "subscribe"
    /\ \E T \in DOMAIN subscriptions : Len(subscriptions[T]) = 1
    /\ pings > 0
    /\ dispatched.n > 0

\* C12: once the stop flag is set the ping task sends at most one more
\* ping and reaches its end, and the reader task handles at most one more
\* frame; each task, at the test at the top of its loop with the flag set,
\* leaves the loop; a failed send of a ping is followed by the sleep, and
\* neither task ends while the flag is not set.
C12_CooperativeStop ==
    /\ \A n \in 0..(MaxPings + 1) :
          []((stop_flag /\ pings = n) => [](pings <= n + 1))
    /\ \A n \in 0..MaxLoopFrames :
          []((stop_flag /\ dispatched.n = n) => [](dispatched.n <= n + 1))
    /\ stop_flag ~> (pingPc = "done")
    /\ [](pingPc = "done" => stop_flag)
    /\ [](readerPc = "done" => stop_flag)
    /\ [][/\ (stop_flag /\ pingPc = "top" /\ pingPc' # pingPc) => pingPc' = "done"
          /\ (stop_flag /\ readerPc = "top" /\ readerPc' # readerPc)
                => readerPc' = "done"
          /\ (pings' # pings /\ pingResult' = "err") => pingPc' = "sleep"
          /\ pingPc = "done" => pingPc' = "done"
          /\ readerPc = "done" => readerPc' = "done"]_vars

\* C12 witness: the ping task sent a ping after the stop flag was set (one
\* more than it sends before), that send failed, and both tasks have
\* ended, the reader having handled a frame.
C12_Witness ==
    /\ stop_flag
    /\ pings = MaxPings + 1
    /\ pingResult = "err"
    /\ pingPc = "done"
    /\ readerPc = "done"
    /\ dispatched.n > 0

\* C19: the writer mutex has one holder at most; add/remove take it only
\* while they hold the subscriptions mutex, the ping task holds it only
\* during its send and never holds the subscriptions mutex; whenever a task
\* waits for a mutex its holder can take its next step; when the send of a
\* ping ends while add/remove waits, the writer mutex is free for it, and
\* the waiting call gets it.
C19_NoDeadlockBetweenLocks ==
    /\ [](/\ writerLock = "ping" <=> pingPc = "send"
          /\ writerLock = "facade" <=> facade.pc \in {"add_send", "rm_send"}
          /\ ~(pingPc = "send" /\ facade.pc \in {"add_send", "rm_send"})
          /\ subsLock <=> facade.pc \in {"add_lock", "add_send", "rm_lock", "rm_send"}
          /\ (pingPc = "lock" /\ writerLock = "facade")
                => ENABLED (\E ok \in BOOLEAN : AddSend(ok) \/ RemoveSend(ok))
          /\ (facade.pc \in {"add_lock", "rm_lock"} /\ writerLock = "ping")
                => ENABLED (\E ok \in BOOLEAN : PingSend(ok))
          /\ (facade.pc \in {"add_lock", "rm_lock"} /\ writerLock = "free")
                => ENABLED (AddLockWriter \/ RemoveLockWriter)
          /\ (readerPc = "parse" /\ TakesLock(readerData) /\ subsLock)
                => \/ ENABLED (AddLockWriter \/ RemoveLockWriter)
                   \/ ENABLED (\E ok \in BOOLEAN : AddSend(ok) \/ RemoveSend(ok))
                   \/ ENABLED (\E ok \in BOOLEAN : PingSend(ok)))
    /\ [][(facade.pc \in {"add_lock", "rm_lock"} /\ pings' # pings)
             => (writerLock' = "free" /\ facade'.pc = facade.pc)]_vars
    /\ (facade.pc \in {"add_lock", "rm_lock"}) ~> (writerLock = "facade")
    /\ (pingPc = "lock" /\ (pings < MaxPings \/ stop_flag)) ~> (writerLock = "ping")
    /\ (readerPc = "parse" /\ subsLock) ~> ~subsLock

\* C19 witness: remove_subscription holds the subscriptions mutex and waits
\* for the writer mutex, which the ping task holds for its send, while the
\* reader waits for the subscriptions mutex with a frame to fan out.
C19_Witness ==
    /\ facade.pc = "rm_lock"
    /\ subsLock
    /\ writerLock = "ping"
    /\ pingPc = "send"
    /\ readerPc = "parse"
    /\ TakesLock(readerData)

====
